---- MODULE Spec2Model ----
(***************************************************************************)
(* osc-bsu-backup: snapshot creation and rotation of block-storage         *)
(* volumes (src/osc_bsu_backup/bsu_backup.py).                             *)
(*                                                                         *)
(* The remote compute API is the environment: a store of snapshot records, *)
(* the tags of the volumes and the instances with their block-device       *)
(* mappings.  Every remote call the tool makes is one step of the          *)
(* invocation that makes it.  Time is counted in ticks, TicksPerDay of     *)
(* them to one day.                                                        *)
(***************************************************************************)
EXTENDS Integers, Sequences, FiniteSets, TLC

VARIABLES
    snapshots,   \* remote: the set of snapshot records
    voltags,     \* remote: volume -> its tag set, a set of <<key, value>>
    now,         \* the local clock, datetime.now(timezone.utc), in ticks
    skew,        \* ticks the clock of the remote is ahead of the local one
    nextId,      \* remote: the identifier the next created snapshot gets
    proc,        \* invocation -> its control state, locals and call log
    instances,   \* remote: the reservations, each a list of instances
    client       \* the call of auth or of a find_* function: position, log

vars == <<snapshots, voltags, now, skew, nextId, proc, instances, client>>

\* What the snapshot functions leave alone.
locator == <<instances, client>>

----------------------------------------------------------------------------
(* Bounds *)

MaxInitSnaps == 3    \* snapshots that exist before the first call
MaxFewSnaps == 2     \* the same, where each has more attributes drawn
MaxSnaps == 6        \* snapshot identifiers the remote ever hands out
MaxTime == 3         \* the local clock stops here
TicksPerDay == 2     \* clock ticks in one day
MaxRotate == 2       \* largest rotate argument drawn
MaxSkew == 1         \* largest lead of the remote clock over the local one
MaxRuns == 3         \* successive backup invocations of one process
MaxQueryLen == 5     \* characters of a tag query
MaxBelowZero == 1    \* how far below zero a rotate argument is drawn

Volumes == {"vol-a", "vol-b"}
Procs == {"p1", "p2"}
TagKeys == {"Name", "test2"}
TagValues == {"X", "Y"}

Range(f) == {f[i] : i \in DOMAIN f}

Min(a, b) == IF a <= b THEN a ELSE b

\* The volume lists a call is given: non-empty, an identifier may repeat.
VolumeLists == {l \in UNION {[1..n -> Volumes] : n \in 1..2} : TRUE}

----------------------------------------------------------------------------
(* Descriptions *)

NoStamp == -1

CurrentMarker == "osc-bsu-backup: Automated volume snapshot - "

\* generate_description(): the tool identity and the UTC time of the call.
generate_description(t) == [marker |-> CurrentMarker, stamp |-> t]

OLD_DESCRIPTION ==
    << [marker |-> "osc-bsu-backup 0.1", stamp |-> NoStamp],
       [marker |-> "osc-bsu-backup 0.0.2", stamp |-> NoStamp],
       [marker |-> "osc-bsu-backup 0.0.1", stamp |-> NoStamp] >>

\* A description no version of the tool writes.
ForeignDescription == [marker |-> "manual snapshot", stamp |-> NoStamp]

----------------------------------------------------------------------------
(* The remote API *)

NoFault == "none"
InUse == "InvalidSnapshot.InUse"
NotFound == "InvalidSnapshot.NotFound"
Denied == "UnauthorizedOperation"

Faults == {NoFault, InUse, Denied}

\* describe_snapshots(Filters=...): a filter carries a name and the values it
\* accepts; a snapshot is returned when it passes every filter.
PassesFilter(s, f) ==
    CASE f.Name = "volume-id" -> \E i \in DOMAIN f.Values : f.Values[i] = s.vol
      [] f.Name = "description" ->
             \E i \in DOMAIN f.Values : f.Values[i] = s.desc
      [] OTHER -> TRUE

Matching(filters) ==
    {s \in snapshots : \A i \in DOMAIN filters : PassesFilter(s, filters[i])}

\* What the tool reads of a returned snapshot.
Item(s) == [id |-> s.id, start |-> s.start]

\* The orders in which the remote may return a set of snapshots.
Orders(S) ==
    {o \in [1..Cardinality(S) -> {Item(s) : s \in S}] :
        \A i, j \in DOMAIN o : i # j => o[i] # o[j]}

describe_snapshots(filters) == Orders(Matching(filters))

delete_codeIdempotent(id) ==
    IF \E s \in snapshots : s.id = id
    THEN (CHOOSE s \in snapshots : s.id = id).fault
    ELSE NoFault

\* delete_snapshot(SnapshotId=id): the error code of the answer, NoFault on
\* success.
delete_code(id) ==
    IF \E s \in snapshots : s.id = id
    THEN (CHOOSE s \in snapshots : s.id = id).fault
    ELSE NotFound

delete_store(id, code) ==
    IF code = NoFault THEN {s \in snapshots : s.id # id} ELSE snapshots

\* create_tags(Resources=[id], Tags=tags): a tag replaces the one of its key.
create_tags(id, tags) ==
    {IF s.id = id
     THEN [s EXCEPT !.tags =
              {t \in @ : \A u \in tags : u[1] # t[1]} \cup tags]
     ELSE s : s \in snapshots}

----------------------------------------------------------------------------
(* rotate_snapshots: the selection *)

\* list.sort(key=StartTime, reverse=True): newest first; equal keys keep the
\* order they came in.
RECURSIVE SortByStartTimeDesc(_)
SortByStartTimeDesc(l) ==
    IF l = <<>> THEN <<>>
    ELSE LET init == SortByStartTimeDesc(SubSeq(l, 1, Len(l) - 1))
             x == l[Len(l)]
             k == Cardinality({i \in DOMAIN init : init[i].start >= x.start})
         IN SubSeq(init, 1, k) \o <<x>> \o SubSeq(init, k + 1, Len(init))

SortOldestFirst(l) ==
    LET s == SortByStartTimeDesc(l)
    IN [i \in DOMAIN s |-> s[Len(s) + 1 - i]]

SortSnapshots(l) == SortByStartTimeDesc(l)

\* The snapshots rotate_snapshots passes to delete, in order: none when fewer
\* than rotate were fetched, else those at index rotate or later (from 0) of
\* the sorted list.
Suffix(s, marks) == SubSeq(s, Len(s) - Cardinality(marks) + 1, Len(s))

CountMarkedOldest(fetched, rotate) ==
    LET s == SortSnapshots(fetched)
    IN Suffix(s, {i \in DOMAIN s : i > Len(s) - rotate})

CountMarkedStrict(fetched, rotate) ==
    IF Len(fetched) >= rotate
    THEN LET s == SortSnapshots(fetched)
         IN Suffix(s, {i \in DOMAIN s : i - 1 > rotate})
    ELSE <<>>

CountMarkedFloor(fetched, rotate) ==
    LET keep == IF rotate < 1 THEN 1 ELSE rotate
        s == SortSnapshots(fetched)
    IN IF Len(fetched) >= keep
       THEN Suffix(s, {i \in DOMAIN s : i - 1 >= keep})
       ELSE <<>>

CountMarked(fetched, rotate) ==
    IF Len(fetched) >= rotate
    THEN LET s == SortSnapshots(fetched)
         IN Suffix(s, {i \in DOMAIN s : i - 1 >= rotate})
    ELSE <<>>

----------------------------------------------------------------------------
(* rotate_days_snapshots: the selection *)

\* timedelta.days: whole days, rounded towards minus infinity.
Days(delta) == delta \div TicksPerDay

DaysMarkedStrict(t, start, rotate) == Days(t - start) > rotate

DaysMarked(t, start, rotate) == Days(t - start) >= rotate

----------------------------------------------------------------------------
(* The handling of a failed delete *)

RecoverableNever(code) == FALSE

RecoverableAlways(code) == TRUE

\* e.response["Error"]["Code"] == "InvalidSnapshot.InUse": logged, not raised.
Recoverable(code) == code = InUse

----------------------------------------------------------------------------
(* An invocation: its position, its locals and the log of its calls *)

NoArgs == [volumes |-> <<>>, rotate |-> 0, rotate_only |-> FALSE,
           copy_tags |-> FALSE]

Idle ==
    [pc |-> "idle", fn |-> "none", mode |-> "call", args |-> NoArgs,
     vi |-> 1, si |-> 1, snaps |-> <<>>, created |-> <<>>, stages |-> <<>>,
     result |-> "none", attempts |-> <<>>, fetchLog |-> <<>>,
     tagCalls |-> <<>>, history |-> <<>>]

Off == [Idle EXCEPT !.pc = "off"]

EntryPc(fn) ==
    CASE fn = "create_snapshots" -> "create"
      [] fn = "rotate_snapshots" -> "rotate_describe"
      [] fn = "rotate_days_snapshots" -> "days_describe"

Begin(r, mode, fn, a, stages) ==
    [r EXCEPT !.pc = EntryPc(fn), !.fn = fn, !.mode = mode, !.args = a,
              !.vi = 1, !.si = 1, !.snaps = <<>>, !.created = <<>>,
              !.stages = stages, !.result = "running", !.attempts = <<>>,
              !.fetchLog = <<>>, !.tagCalls = <<>>]

CountOf(store) == [v \in Volumes |-> Cardinality({s \in store : s.vol = v})]

\* The current function returns (res = "ok") or raises (res = "raised"); in
\* a backup invocation the next stage starts after a normal return.
Return(r, res, store) ==
    IF res = "ok" /\ r.stages # <<>>
    THEN [r EXCEPT !.pc = EntryPc(Head(r.stages)), !.fn = Head(r.stages),
                   !.vi = 1, !.si = 1, !.snaps = <<>>, !.stages = Tail(@)]
    ELSE [r EXCEPT !.pc = "idle", !.result = res, !.snaps = <<>>,
                   !.history =
                       IF r.mode = "backup"
                       THEN Append(@, [args |-> r.args, result |-> res,
                                       count |-> CountOf(store)])
                       ELSE @]

\* for vol in volumes: the next volume, or the end of the loop.
NextVolume(r, store) ==
    IF r.vi < Len(r.args.volumes)
    THEN [r EXCEPT !.vi = @ + 1, !.si = 1, !.snaps = <<>>,
                   !.pc = EntryPc(r.fn)]
    ELSE Return(r, "ok", store)

NextItemRefetch(r, store) ==
    [r EXCEPT !.pc = EntryPc(r.fn), !.si = 1, !.snaps = <<>>]

\* for snap in snaps["Snapshots"]: the next snapshot, or the next volume.
NextItem(r, store) ==
    IF r.si < Len(r.snaps)
    THEN [r EXCEPT !.si = @ + 1]
    ELSE NextVolume(r, store)

AfterDeleteNextVolume(r, code, store) ==
    IF code = NoFault \/ Recoverable(code)
    THEN NextItem(r, store)
    ELSE NextVolume(r, store)

\* try: delete_snapshot ... except ClientError: an in-use answer is logged and
\* the loop goes on; any other error is raised out of the function.
AfterDelete(r, code, store) ==
    IF code = NoFault \/ Recoverable(code)
    THEN NextItem(r, store)
    ELSE Return(r, "raised", store)

Attempt(r, item, code) ==
    [r EXCEPT !.attempts =
        Append(@, [pos |-> r.vi, id |-> item.id, code |-> code])]

----------------------------------------------------------------------------
(* rotate_snapshots and rotate_days_snapshots *)

NoScopeFilter(vol, rotate_only) ==
    << [Name |-> "volume-id", Values |-> <<vol>>] >>

\* filters = [volume-id]; if rotate_only: filters.append(description).
RotateFilters(vol, rotate_only) ==
    IF rotate_only
    THEN << [Name |-> "volume-id", Values |-> <<vol>>],
            [Name |-> "description", Values |-> OLD_DESCRIPTION] >>
    ELSE << [Name |-> "volume-id", Values |-> <<vol>>] >>

rotate_snapshots(p, volumes, rotate, rotate_only) ==
    /\ proc[p].pc = "idle"
    /\ proc' = [proc EXCEPT ![p] =
           Begin(@, "call", "rotate_snapshots",
                 [volumes |-> volumes, rotate |-> rotate,
                  rotate_only |-> rotate_only, copy_tags |-> FALSE], <<>>)]
    /\ UNCHANGED <<snapshots, voltags, skew, now, nextId, locator>>

rotate_days_snapshots(p, volumes, rotate, rotate_only) ==
    /\ proc[p].pc = "idle"
    /\ proc' = [proc EXCEPT ![p] =
           Begin(@, "call", "rotate_days_snapshots",
                 [volumes |-> volumes, rotate |-> rotate,
                  rotate_only |-> rotate_only, copy_tags |-> FALSE], <<>>)]
    /\ UNCHANGED <<snapshots, voltags, skew, now, nextId, locator>>

\* snaps = conn.describe_snapshots(Filters=filters), the threshold test and
\* the sort.
RotateDescribe(p) ==
    LET r == proc[p]
    IN /\ r.pc = "rotate_describe"
       /\ \E fetched \in describe_snapshots(
                 RotateFilters(r.args.volumes[r.vi], r.args.rotate_only)) :
            LET marked == CountMarked(fetched, r.args.rotate)
                r1 == [r EXCEPT !.fetchLog = Append(@, fetched),
                                !.snaps = marked, !.si = 1]
            IN proc' = [proc EXCEPT ![p] =
                   IF marked = <<>>
                   THEN NextVolume(r1, snapshots)
                   ELSE [r1 EXCEPT !.pc = "rotate_delete"]]
       /\ UNCHANGED <<snapshots, voltags, skew, now, nextId, locator>>

\* One pass of the loop over a snapshot at index >= rotate: the delete call.
RotateDelete(p) ==
    LET r == proc[p]
        item == r.snaps[r.si]
        code == delete_code(item.id)
        store == delete_store(item.id, code)
    IN /\ r.pc = "rotate_delete"
       /\ snapshots' = store
       /\ proc' = [proc EXCEPT ![p] =
              AfterDelete(Attempt(r, item, code), code, store)]
       /\ UNCHANGED <<voltags, skew, now, nextId, locator>>

DaysDescribe(p) ==
    LET r == proc[p]
    IN /\ r.pc = "days_describe"
       /\ \E fetched \in describe_snapshots(
                 RotateFilters(r.args.volumes[r.vi], r.args.rotate_only)) :
            LET r1 == [r EXCEPT !.fetchLog = Append(@, fetched),
                                !.snaps = fetched, !.si = 1]
            IN proc' = [proc EXCEPT ![p] =
                   IF fetched = <<>>
                   THEN NextVolume(r1, snapshots)
                   ELSE [r1 EXCEPT !.pc = "days_iter"]]
       /\ UNCHANGED <<snapshots, voltags, skew, now, nextId, locator>>

\* One pass of the loop of rotate_days_snapshots: the age test at the current
\* time and, when it passes, the delete call.
DaysIter(p) ==
    LET r == proc[p]
        item == r.snaps[r.si]
        code == delete_code(item.id)
        store == delete_store(item.id, code)
    IN /\ r.pc = "days_iter"
       /\ IF DaysMarked(now, item.start, r.args.rotate)
          THEN /\ snapshots' = store
               /\ proc' = [proc EXCEPT ![p] =
                      AfterDelete(Attempt(r, item, code), code, store)]
          ELSE /\ snapshots' = snapshots
               /\ proc' = [proc EXCEPT ![p] = NextItem(r, snapshots)]
       /\ UNCHANGED <<voltags, skew, now, nextId, locator>>

----------------------------------------------------------------------------
(* create_snapshots *)

NextCreateSkipWait(r) ==
    IF r.vi < Len(r.args.volumes)
    THEN [r EXCEPT !.vi = @ + 1, !.pc = "create"]
    ELSE Return(r, "ok", {})

NextCreateWaitEach(r) == [r EXCEPT !.pc = "wait"]

\* After the body of the loop for one volume: the next volume, or the wait.
NextCreate(r) ==
    IF r.vi < Len(r.args.volumes)
    THEN [r EXCEPT !.vi = @ + 1, !.pc = "create"]
    ELSE [r EXCEPT !.pc = "wait"]

create_snapshots(p, volumes, copy_tags) ==
    /\ proc[p].pc = "idle"
    /\ proc' = [proc EXCEPT ![p] =
           Begin(@, "call", "create_snapshots",
                 [volumes |-> volumes, rotate |-> 0, rotate_only |-> FALSE,
                  copy_tags |-> copy_tags], <<>>)]
    /\ UNCHANGED <<snapshots, voltags, skew, now, nextId, locator>>

\* snap = conn.create_snapshot(Description=description, VolumeId=vol).  The
\* remote stamps the snapshot with its own clock.
CreateSnapshot(p) ==
    LET r == proc[p]
    IN /\ r.pc = "create"
       /\ nextId <= MaxSnaps
       /\ snapshots' = snapshots \cup
              {[id |-> nextId, vol |-> r.args.volumes[r.vi],
                start |-> now + skew, desc |-> generate_description(now),
                tags |-> {}, fault |-> NoFault, state |-> "pending"]}
       /\ nextId' = nextId + 1
       /\ proc' = [proc EXCEPT ![p] =
              LET r1 == [r EXCEPT !.created = Append(@, nextId)]
              IN IF r.args.copy_tags
                 THEN [r1 EXCEPT !.pc = "copy_tags"]
                 ELSE NextCreate(r1)]
       /\ UNCHANGED <<voltags, skew, now, locator>>

TagsWantedAlways(vol_tags) == TRUE

\* if vol_tags: -- the tag call is made for a non-empty tag list only.
HasTags(vol_tags) == vol_tags # {}

\* vol_tags = describe_volumes(VolumeIds=[vol])[...].get("Tags", []) and,
\* when there are any, create_tags on the snapshot just created.
CopyTags(p) ==
    LET r == proc[p]
        vol_tags == voltags[r.args.volumes[r.vi]]
        id == r.created[Len(r.created)]
    IN /\ r.pc = "copy_tags"
       /\ IF HasTags(vol_tags)
          THEN /\ snapshots' = create_tags(id, vol_tags)
               /\ proc' = [proc EXCEPT ![p] =
                      NextCreate([r EXCEPT !.tagCalls =
                          Append(@, [id |-> id, tags |-> vol_tags])])]
          ELSE /\ snapshots' = snapshots
               /\ proc' = [proc EXCEPT ![p] = NextCreate(r)]
       /\ UNCHANGED <<voltags, skew, now, nextId, locator>>

\* waiter.wait(SnapshotIds=[...]): returns once every snapshot of the batch
\* is completed.
Wait(p) ==
    LET r == proc[p]
    IN /\ r.pc = "wait"
       /\ snapshots' =
              {IF s.id \in Range(r.created)
               THEN [s EXCEPT !.state = "completed"] ELSE s : s \in snapshots}
       /\ proc' = [proc EXCEPT ![p] = Return(r, "ok", snapshots')]
       /\ UNCHANGED <<voltags, skew, now, nextId, locator>>

\* A call of the remote made by create_snapshots fails: nothing is caught, the
\* error leaves the function.
CreateSnapshotFails(p) ==
    /\ proc[p].pc = "create"
    /\ proc' = [proc EXCEPT ![p] = Return(@, "raised", snapshots)]
    /\ UNCHANGED <<snapshots, voltags, skew, now, nextId, locator>>

CopyTagsFails(p) ==
    /\ proc[p].pc = "copy_tags"
    /\ proc' = [proc EXCEPT ![p] = Return(@, "raised", snapshots)]
    /\ UNCHANGED <<snapshots, voltags, skew, now, nextId, locator>>

WaitFails(p) ==
    /\ proc[p].pc = "wait"
    /\ proc' = [proc EXCEPT ![p] = Return(@, "raised", snapshots)]
    /\ UNCHANGED <<snapshots, voltags, skew, now, nextId, locator>>

----------------------------------------------------------------------------
(* The orchestrator: one backup invocation *)

\* The volumes are located, then their snapshots are created, then the
\* retention policy is applied; the invocation succeeds when both stages
\* return normally.
backup(p, volumes, policy, rotate, rotate_only, copy_tags) ==
    /\ proc[p].pc = "idle"
    /\ Len(proc[p].history) < MaxRuns
    /\ proc' = [proc EXCEPT ![p] =
           Begin(@, "backup", "create_snapshots",
                 [volumes |-> volumes, rotate |-> rotate,
                  rotate_only |-> rotate_only, copy_tags |-> copy_tags],
                 <<policy>>)]
    /\ UNCHANGED <<snapshots, voltags, skew, now, nextId, locator>>

----------------------------------------------------------------------------
(* Strings of the tag queries *)

\* A string is the list of its characters.
Chars == {"k", "v", ":"}

Strings(n) == UNION {[1..m -> Chars] : m \in 0..n}

HasColon(s) == \E i \in DOMAIN s : s[i] = ":"

FirstColon(s) ==
    CHOOSE i \in DOMAIN s : s[i] = ":" /\ \A j \in 1..(i - 1) : s[j] # ":"

\* s.split(':'): the pieces between the colons, all of them.
RECURSIVE Split(_)
Split(s) ==
    IF ~HasColon(s) THEN <<s>>
    ELSE <<SubSeq(s, 1, FirstColon(s) - 1)>>
             \o Split(SubSeq(s, FirstColon(s) + 1, Len(s)))

\* s.split(':', 1): the text before the first colon and the whole rest.
SplitOnce(s) ==
    IF ~HasColon(s) THEN <<s>>
    ELSE <<SubSeq(s, 1, FirstColon(s) - 1),
           SubSeq(s, FirstColon(s) + 1, Len(s))>>

SplitTag(tag) == Split(tag)

\* tag.split(':')[1] exists.
Parses(tag) == Len(SplitTag(tag)) >= 2

\* {"Name": f"tag:{tag.split(':')[0]}", "Values": [tag.split(':')[1]]}
TagFilter(tag) ==
    [Name |-> <<"tag:", SplitTag(tag)[1]>>, Values |-> <<SplitTag(tag)[2]>>]

TagFilters(tags) == [i \in DOMAIN tags |-> TagFilter(tags[i])]

StateFilter ==
    [Name |-> <<"instance-state-name">>, Values |-> <<"running", "stopped">>]

----------------------------------------------------------------------------
(* The remote API: volumes and instances *)

\* A tag filter passes a resource that carries the key with one of the values.
PassesTagFilter(tags, f) ==
    \E t \in tags : t[1] = f.Name[2] /\ t[2] \in Range(f.Values)

PassesInstanceFilter(inst, f) ==
    IF f.Name[1] = "tag:" THEN PassesTagFilter(inst.tags, f)
    ELSE inst.state \in Range(f.Values)

\* The elements of the list l that satisfy keep, in their order.
RECURSIVE SelectList(_, _)
SelectList(l, keep) ==
    IF l = <<>> THEN <<>>
    ELSE IF l[1] \in keep
         THEN <<l[1]>> \o SelectList(Tail(l), keep)
         ELSE SelectList(Tail(l), keep)

\* describe_instances: the reservations that hold a selected instance, each
\* with its selected instances.
RECURSIVE Reservations(_, _)
Reservations(res, keep) ==
    IF res = <<>> THEN <<>>
    ELSE LET r == SelectList(res[1], keep)
         IN (IF r = <<>> THEN <<>> ELSE <<r>>)
                \o Reservations(Tail(res), keep)

AllInstances == UNION {Range(instances[i]) : i \in DOMAIN instances}

describe_instances_by_filters(filters) ==
    Reservations(instances,
        {x \in AllInstances :
            \A i \in DOMAIN filters : PassesInstanceFilter(x, filters[i])})

describe_instances_by_id(id) ==
    Reservations(instances, {x \in AllInstances : x.id = id})

\* describe_volumes(Filters=filters): the volumes that pass every filter, in
\* an order of the remote's choosing.
describe_volumes(filters) ==
    LET S == {v \in Volumes :
                 \A i \in DOMAIN filters : PassesTagFilter(voltags[v], filters[i])}
    IN {o \in [1..Cardinality(S) -> S] :
           \A i, j \in DOMAIN o : i # j => o[i] # o[j]}

----------------------------------------------------------------------------
(* The Resource Locator: find_instance_by_id, find_instances_by_tags and    *)
(* find_volumes_by_tags                                                     *)

NoClient ==
    [pc |-> "idle", fn |-> "none", args |-> <<>>, filters |-> <<>>,
     status |-> "none", error |-> "none", calls |-> <<>>, volumes |-> <<>>]

ClientBegin(fn, args, filters, pc) ==
    [NoClient EXCEPT !.pc = pc, !.fn = fn, !.args = args,
                     !.filters = filters, !.status = "running"]

ClientRaise(c, error) ==
    [c EXCEPT !.pc = "idle", !.status = "raised", !.error = error]

ClientReturn(c, volumes) ==
    [c EXCEPT !.pc = "idle", !.status = "ok", !.volumes = volumes]

\* for reservation ...: for instance ...: for vol in BlockDeviceMappings:
\* volumes.append(vol["Ebs"]["VolumeId"])
RECURSIVE Flatten(_)
Flatten(ll) == IF ll = <<>> THEN <<>> ELSE ll[1] \o Flatten(Tail(ll))

CollectVolumes(reservations) ==
    Flatten([i \in DOMAIN reservations |->
        Flatten([j \in DOMAIN reservations[i] |->
            reservations[i][j].mappings])])

find_instance_by_id(id) ==
    /\ client.pc = "idle"
    /\ client' = ClientBegin("find_instance_by_id", <<id>>, <<>>,
                             "describe_instances")
    /\ UNCHANGED <<snapshots, voltags, now, skew, nextId, proc, instances>>

\* The list comprehension over the tags raises IndexError at a tag that has no
\* colon, before any call is made.
find_instances_by_tags(tags) ==
    /\ client.pc = "idle"
    /\ client' =
          IF \A i \in DOMAIN tags : Parses(tags[i])
          THEN ClientBegin("find_instances_by_tags", tags,
                           <<StateFilter>> \o TagFilters(tags),
                           "describe_instances")
          ELSE ClientRaise(ClientBegin("find_instances_by_tags", tags, <<>>,
                                       "idle"), "IndexError")
    /\ UNCHANGED <<snapshots, voltags, now, skew, nextId, proc, instances>>

find_volumes_by_tags(tags) ==
    /\ client.pc = "idle"
    /\ client' =
          IF \A i \in DOMAIN tags : Parses(tags[i])
          THEN ClientBegin("find_volumes_by_tags", tags, TagFilters(tags),
                           "describe_volumes")
          ELSE ClientRaise(ClientBegin("find_volumes_by_tags", tags, <<>>,
                                       "idle"), "IndexError")
    /\ UNCHANGED <<snapshots, voltags, now, skew, nextId, proc, instances>>

\* conn.describe_instances(...) and the loops over its answer.  An identifier
\* the remote does not know is answered with an error.
DescribeInstances ==
    /\ client.pc = "describe_instances"
    /\ LET c == [client EXCEPT !.calls = Append(@, "describe_instances")]
       IN client' =
             IF client.fn = "find_instance_by_id"
             THEN IF \E x \in AllInstances : x.id = client.args[1]
                  THEN ClientReturn(c, CollectVolumes(
                           describe_instances_by_id(client.args[1])))
                  ELSE ClientRaise(c, "InvalidInstanceID.NotFound")
             ELSE ClientReturn(c, CollectVolumes(
                      describe_instances_by_filters(client.filters)))
    /\ UNCHANGED <<snapshots, voltags, now, skew, nextId, proc, instances>>

\* conn.describe_volumes(Filters=filters) and the loop over its answer.
DescribeVolumes ==
    /\ client.pc = "describe_volumes"
    /\ \E vols \in describe_volumes(client.filters) :
          client' = ClientReturn(
              [client EXCEPT !.calls = Append(@, "describe_volumes")], vols)
    /\ UNCHANGED <<snapshots, voltags, now, skew, nextId, proc, instances>>

----------------------------------------------------------------------------
(* auth *)

None == "None"

\* not x, for an optional string.
Falsy(x) == x \in {None, ""}

default_region ==
    <<"us-east-2", "eu-west-2", "ap-northeast-1", "us-west-1",
      "cloudgouv-eu-west-1">>

AuthRaisesNever(endpoint, region) == FALSE

\* elif not endpoint and region not in default_region: raise InputError
AuthRaises(endpoint, region) ==
    Falsy(endpoint) /\ region \notin Range(default_region)

\* if not endpoint and region in default_region: endpoint = f"https://fcu..."
AuthEndpoint(endpoint, region) ==
    IF Falsy(endpoint) /\ region \in Range(default_region)
    THEN <<"https://fcu.", region, ".outscale.com">>
    ELSE <<endpoint>>

\* The entry of auth and the test of its arguments.
auth(profile, region, client_cert, endpoint) ==
    LET a == [profile |-> profile, region |-> region,
              client_cert |-> client_cert, endpoint |-> endpoint,
              endpoint_url |-> AuthEndpoint(endpoint, region)]
    IN /\ client.pc = "idle"
       /\ client' =
             IF AuthRaises(endpoint, region)
             THEN ClientRaise(ClientBegin("auth", a, <<>>, "idle"),
                              "InputError")
             ELSE ClientBegin("auth", a, <<>>, "session")
       /\ UNCHANGED <<snapshots, voltags, now, skew, nextId, proc, instances>>

\* A call of the library returns or raises; auth catches nothing.
LibraryCall(name, error, then) ==
    LET c == [client EXCEPT !.calls = Append(@, name)]
    IN \/ client' = [c EXCEPT !.pc = then,
                              !.status = IF then = "idle" THEN "ok" ELSE @]
       \/ client' = ClientRaise(c, error)

\* session = boto3.Session(profile_name=profile)
AuthSession ==
    /\ client.pc = "session"
    /\ LibraryCall("Session", "ProfileNotFound", "client")
    /\ UNCHANGED <<snapshots, voltags, now, skew, nextId, proc, instances>>

\* conn = session.client("ec2", region_name=region, endpoint_url=endpoint, ...)
AuthClient ==
    /\ client.pc = "client"
    /\ LibraryCall("client", "NoRegionError", "describe_key_pairs")
    /\ UNCHANGED <<snapshots, voltags, now, skew, nextId, proc, instances>>

\* conn.describe_key_pairs()["KeyPairs"][0]: the call fails, or the account
\* has no key pair, or auth returns the connection.
AuthDescribeKeyPairs ==
    /\ client.pc = "describe_key_pairs"
    /\ \/ LibraryCall("describe_key_pairs", "AuthFailure", "idle")
       \/ client' =
             ClientRaise([client EXCEPT
                             !.calls = Append(@, "describe_key_pairs")],
                         "IndexError")
    /\ UNCHANGED <<snapshots, voltags, now, skew, nextId, proc, instances>>

----------------------------------------------------------------------------
(* The environment *)

Tick ==
    /\ now < MaxTime
    /\ now' = now + 1
    /\ UNCHANGED <<snapshots, voltags, skew, nextId, proc, locator>>

\* Another actor of the account creates a snapshot of a volume.
OtherCreates ==
    /\ nextId <= MaxSnaps
    /\ \E v \in Volumes :
          snapshots' = snapshots \cup
              {[id |-> nextId, vol |-> v, start |-> now + skew,
                desc |-> ForeignDescription, tags |-> {}, fault |-> NoFault,
                state |-> "completed"]}
    /\ nextId' = nextId + 1
    /\ UNCHANGED <<voltags, skew, now, proc, locator>>

\* The operation that used a snapshot is over: it can be deleted now.
Release ==
    /\ \E s \in snapshots :
          /\ s.fault = InUse
          /\ snapshots' = (snapshots \ {s}) \cup {[s EXCEPT !.fault = NoFault]}
    /\ UNCHANGED <<voltags, skew, now, nextId, proc, locator>>

\* Another actor of the account deletes a snapshot.
OtherDeletes ==
    /\ \E s \in snapshots : snapshots' = snapshots \ {s}
    /\ UNCHANGED <<voltags, skew, now, nextId, proc, locator>>

----------------------------------------------------------------------------
(* Initial states *)

\* The place of x in the list seq.
Ix(seq, x) == CHOOSE i \in DOMAIN seq : seq[i] = x

VolumeOrder == <<"vol-a", "vol-b">>

FaultOrder == <<NoFault, InUse, Denied>>

\* a comes before b, or is equal to it, in the order of volume, creation
\* time, description (by its place in descs) and delete answer.
AttrLeq(a, b, descs) ==
    LET ka == <<Ix(VolumeOrder, a.vol), a.start, Ix(descs, a.desc),
                Ix(FaultOrder, a.fault)>>
        kb == <<Ix(VolumeOrder, b.vol), b.start, Ix(descs, b.desc),
                Ix(FaultOrder, b.fault)>>
    IN \E i \in 1..5 :
          /\ \A j \in 1..(i - 1) : ka[j] = kb[j]
          /\ i <= 4 => ka[i] < kb[i]

\* The stores of up to max completed snapshots with the given creation times,
\* descriptions (a list) and delete answers.  The identifiers the remote gave
\* are arbitrary: the stores are listed up to a renaming of them, numbered in
\* the order of their attributes.
Stores(max, starts, descs, faults) ==
    UNION { { { [id |-> i, vol |-> f[i].vol, start |-> f[i].start,
                 desc |-> f[i].desc, tags |-> {}, fault |-> f[i].fault,
                 state |-> "completed"] : i \in 1..n } :
              f \in { g \in [1..n -> [vol : Volumes, start : starts,
                                      desc : Range(descs), fault : faults]] :
                        \A i \in 1..(n - 1) : AttrLeq(g[i], g[i + 1], descs) } } :
            n \in 0..max }

InitWith(stores, tagsets, times, skews) ==
    /\ snapshots \in stores
    /\ voltags \in [Volumes -> tagsets]
    /\ now \in times
    /\ skew \in skews
    /\ nextId = Cardinality(snapshots) + 1
    /\ proc = [p \in Procs |-> IF p = "p1" THEN Idle ELSE Off]
    /\ instances = <<>>
    /\ client = NoClient

----------------------------------------------------------------------------
(* Log helpers for the properties *)

Ids(items) == {x.id : x \in Range(items)}

StoreIds(v) == {s.id : s \in {x \in snapshots : x.vol = v}}

AttemptsAt(r, pos) == {a \in Range(r.attempts) : a.pos = pos}

\* The volume at position pos of the list has been rotated to the end.
Completed(r, pos) ==
    /\ pos \in DOMAIN r.fetchLog
    /\ pos < r.vi \/ r.result = "ok"

DistinctStarts(F) ==
    \A i, j \in DOMAIN F : i # j => F[i].start # F[j].start

\* The k snapshots of F with the newest creation timestamps.
Newest(F, k) ==
    {x \in Range(F) :
        Cardinality({y \in Range(F) : y.start > x.start}) < k}

----------------------------------------------------------------------------
(* Count rotation of a store of deletable snapshots *)

InitCount ==
    InitWith(Stores(MaxInitSnaps, 0..MaxTime, <<ForeignDescription>>,
                    {NoFault}),
             {{}}, {MaxTime}, {0})

NextCount ==
    \E p \in Procs :
        \/ \E vols \in VolumeLists, k \in 0..MaxRotate :
               rotate_snapshots(p, vols, k, FALSE)
        \/ RotateDescribe(p)
        \/ RotateDelete(p)

SpecCount == InitCount /\ [][NextCount]_vars

\* C1: count rotation with keep >= 1 of a volume whose n fetched snapshots
\* have distinct creation timestamps, every delete succeeding, leaves exactly
\* the min(n, keep) newest snapshots of the volume and has passed every other
\* one, and nothing else, to delete.
C1_CountKeepsNewest ==
    \A p \in Procs :
        LET r == proc[p]
        IN r.fn = "rotate_snapshots" =>
           \A pos \in DOMAIN r.fetchLog :
              LET F == r.fetchLog[pos]
                  keep == Newest(F, r.args.rotate)
              IN ( /\ Completed(r, pos)
                   /\ r.args.rotate >= 1
                   /\ DistinctStarts(F)
                   /\ \A a \in AttemptsAt(r, pos) : a.code = NoFault )
                 => /\ StoreIds(r.args.volumes[pos]) = {x.id : x \in keep}
                    /\ {a.id : a \in AttemptsAt(r, pos)} =
                           Ids(F) \ {x.id : x \in keep}
                    /\ Cardinality(StoreIds(r.args.volumes[pos])) =
                           Min(Len(F), r.args.rotate)

\* A volume with keep+1 snapshots of distinct timestamps, fetched out of
\* order, has been rotated and lost one snapshot.
C1_Witness ==
    \E p \in Procs :
        LET r == proc[p]
        IN /\ r.fn = "rotate_snapshots"
           /\ r.args.rotate >= 1
           /\ \E pos \in DOMAIN r.fetchLog :
                 /\ Completed(r, pos)
                 /\ DistinctStarts(r.fetchLog[pos])
                 /\ Len(r.fetchLog[pos]) = r.args.rotate + 1
                 /\ r.fetchLog[pos] # SortByStartTimeDesc(r.fetchLog[pos])
                 /\ Cardinality(AttemptsAt(r, pos)) = 1

\* C2: a volume whose fetched snapshot count is strictly less than keep gets
\* no delete call and keeps its snapshot set.
C2_NoOpBelowThreshold ==
    \A p \in Procs :
        LET r == proc[p]
        IN r.fn = "rotate_snapshots" =>
           \A pos \in DOMAIN r.fetchLog :
              Len(r.fetchLog[pos]) < r.args.rotate =>
                 /\ AttemptsAt(r, pos) = {}
                 /\ StoreIds(r.args.volumes[pos]) = Ids(r.fetchLog[pos])

C2_Witness ==
    \E p \in Procs :
        LET r == proc[p]
        IN /\ r.fn = "rotate_snapshots"
           /\ r.result = "ok"
           /\ \E pos \in DOMAIN r.fetchLog :
                 /\ Len(r.fetchLog[pos]) >= 1
                 /\ Len(r.fetchLog[pos]) < r.args.rotate

----------------------------------------------------------------------------
(* Age rotation, the local clock running *)

\* The creation timestamps are those of the remote clock, which may be ahead
\* of the local one.
InitDays ==
    \E k \in 0..MaxSkew :
        InitWith(Stores(MaxFewSnaps, 0..(MaxTime - 1 + k),
                        <<ForeignDescription>>, {NoFault}),
                 {{}}, {MaxTime - 1}, {k})

NextDays ==
    \/ \E p \in Procs :
        \/ \E vols \in VolumeLists, k \in 0..MaxRotate :
               rotate_days_snapshots(p, vols, k, FALSE)
        \/ DaysDescribe(p)
        \/ DaysIter(p)
    \/ Tick

SpecDays == InitDays /\ [][NextDays]_vars

\* A pass of the age loop by p, and whether it passed its snapshot to delete.
DaysPass(p) == proc[p].pc = "days_iter" /\ proc'[p] # proc[p]

DaysPassDeletes(p) ==
    /\ Len(proc'[p].attempts) = Len(proc[p].attempts) + 1
    /\ proc'[p].attempts[Len(proc'[p].attempts)].id =
           proc[p].snaps[proc[p].si].id

\* Whole days of a time difference, the fraction cut off (rounded to zero).
TruncDays(delta) ==
    IF delta >= 0 THEN delta \div TicksPerDay
    ELSE 0 - ((0 - delta) \div TicksPerDay)

\* C3 as stated: a snapshot the age loop examines is passed to delete if and
\* only if its age in whole days, truncated, is >= maxAgeDays (so with
\* maxAgeDays = 0 every fetched snapshot is).
C3_AgeTruncated ==
    [][\A p \in Procs :
          DaysPass(p) =>
             (DaysPassDeletes(p) <=>
                 TruncDays(now - proc[p].snaps[proc[p].si].start)
                     >= proc[p].args.rotate)]_vars

\* C3 amended: a snapshot the age loop examines is passed to delete if and
\* only if at least maxAgeDays whole days have passed since its creation
\* timestamp, i.e. now - start >= maxAgeDays days; with maxAgeDays = 0 that is
\* every fetched snapshot whose timestamp is not later than the local clock.
C3_AgeBoundary ==
    [][\A p \in Procs :
          DaysPass(p) =>
             (DaysPassDeletes(p) <=>
                 now - proc[p].snaps[proc[p].si].start
                     >= proc[p].args.rotate * TicksPerDay)]_vars

\* An age rotation with maxAgeDays >= 1 has deleted a snapshot exactly
\* maxAgeDays days old and kept one that is a day younger.
C3_Witness ==
    \E p \in Procs :
        LET r == proc[p]
        IN /\ r.fn = "rotate_days_snapshots"
           /\ r.result = "ok"
           /\ r.args.rotate >= 1
           /\ \E pos \in DOMAIN r.fetchLog :
              \E x, y \in Range(r.fetchLog[pos]) :
                 /\ now - x.start = r.args.rotate * TicksPerDay
                 /\ x.id \in {a.id : a \in AttemptsAt(r, pos)}
                 /\ x.id \notin StoreIds(r.args.volumes[pos])
                 /\ now - y.start >= (r.args.rotate - 1) * TicksPerDay
                 /\ now - y.start < r.args.rotate * TicksPerDay
                 /\ y.id \notin {a.id : a \in AttemptsAt(r, pos)}
                 /\ y.id \in StoreIds(r.args.volumes[pos])

----------------------------------------------------------------------------
(* Rotation of snapshots whose deletion may fail *)

InitFaults ==
    InitWith(Stores(MaxInitSnaps, {0}, <<ForeignDescription>>, Faults),
             {{}}, {MaxTime}, {0})

NextFaults ==
    \/ \E p \in Procs :
        \/ \E vols \in VolumeLists, k \in 0..MaxRotate :
               rotate_snapshots(p, vols, k, FALSE)
        \/ \E vols \in VolumeLists, k \in 0..MaxRotate :
               rotate_days_snapshots(p, vols, k, FALSE)
        \/ RotateDescribe(p)
        \/ RotateDelete(p)
        \/ DaysDescribe(p)
        \/ DaysIter(p)

SpecFaults == InitFaults /\ [][NextFaults]_vars

Rotating(r) == r.fn \in {"rotate_snapshots", "rotate_days_snapshots"}

AttemptedIds(r, pos) == {a.id : a \in AttemptsAt(r, pos)}

\* Every snapshot the policy marks among those fetched at pos, and no other,
\* has been passed to delete.  Under the count policy the marked ones are the
\* n - min(n, keep) oldest; under the age policy (the clock standing still)
\* those at least rotate days old.
AllMarkedAttempted(r, pos) ==
    LET F == r.fetchLog[pos]
        att == AttemptedIds(r, pos)
    IN IF r.fn = "rotate_snapshots"
       THEN /\ att \subseteq Ids(F)
            /\ Cardinality(att) = Len(F) - Min(Len(F), r.args.rotate)
            /\ \A x, y \in Range(F) :
                  (x.id \in att /\ y.id \notin att) => x.start <= y.start
       ELSE att = {x.id : x \in {y \in Range(F) :
                       now - y.start >= r.args.rotate * TicksPerDay}}

\* C4: an in-use answer to a delete is tolerated per item.  A rotation in
\* which no delete failed with another code does not raise; at every volume
\* it has finished, each marked snapshot was passed to delete, before or after
\* an in-use failure alike; a snapshot whose delete succeeded is gone and one
\* whose delete failed as in-use remains.
C4_InUseTolerated ==
    \A p \in Procs :
        LET r == proc[p]
        IN Rotating(r) =>
           /\ (\A a \in Range(r.attempts) : a.code \in {NoFault, InUse})
                 => r.result # "raised"
           /\ \A pos \in DOMAIN r.fetchLog :
                 ( /\ Completed(r, pos)
                   /\ \A a \in AttemptsAt(r, pos) : a.code \in {NoFault, InUse} )
                 => AllMarkedAttempted(r, pos)
           /\ \A i \in DOMAIN r.attempts :
                 /\ r.attempts[i].code = NoFault
                       => \A s \in snapshots : s.id # r.attempts[i].id
                 /\ r.attempts[i].code = InUse
                       => \E s \in snapshots : s.id = r.attempts[i].id

\* A rotation returned normally in which, at one volume, the delete of A
\* failed as in-use and the delete of B, made after it, succeeded.
C4_Witness ==
    \E p \in Procs :
        LET r == proc[p]
        IN /\ Rotating(r)
           /\ r.result = "ok"
           /\ \E i, j \in DOMAIN r.attempts :
                 /\ i < j
                 /\ r.attempts[i].pos = r.attempts[j].pos
                 /\ r.attempts[i].code = InUse
                 /\ r.attempts[j].code = NoFault
                 /\ \E s \in snapshots : s.id = r.attempts[i].id
                 /\ \A s \in snapshots : s.id # r.attempts[j].id

\* The rotation of p was ended by a delete error at position r.vi.
Aborted(r) == Rotating(r) /\ r.result = "raised"

\* The policy of r marks none of the snapshots volume v holds.
NothingToMark(r, v) ==
    IF r.fn = "rotate_snapshots"
    THEN Cardinality(StoreIds(v)) <= r.args.rotate
    ELSE \A s \in snapshots :
            s.vol = v => now - s.start < r.args.rotate * TicksPerDay

\* C5 as stated: a fatal delete error at volume X leaves every other volume Y
\* of the list, before or after X, rotated to the end: all the snapshots of Y
\* the policy marks have been passed to delete.
C5_VolumesIndependent ==
    \A p \in Procs :
        LET r == proc[p]
        IN Aborted(r) =>
           \A pos \in DOMAIN r.args.volumes :
              r.args.volumes[pos] # r.args.volumes[r.vi] =>
                 IF pos \in DOMAIN r.fetchLog
                 THEN AllMarkedAttempted(r, pos)
                 ELSE NothingToMark(r, r.args.volumes[pos])

\* C5 amended: a fatal delete error at volume X does not undo or cut short
\* the rotation of any volume processed before X (each has had all its marked
\* snapshots passed to delete); the failed delete is the last call of the
\* rotation: the rest of X and every volume listed after X is not processed.
C5_EarlierVolumesComplete ==
    \A p \in Procs :
        LET r == proc[p]
            n == Len(r.attempts)
        IN Rotating(r) =>
           /\ \A i \in 1..n :
                 r.attempts[i].code \notin {NoFault, InUse}
                    => i = n /\ r.attempts[i].pos = r.vi /\ Aborted(r)
           /\ Aborted(r) =>
                 /\ n >= 1
                 /\ r.attempts[n].code \notin {NoFault, InUse}
                 /\ DOMAIN r.fetchLog = 1..r.vi
                 /\ \A pos \in 1..(r.vi - 1) : AllMarkedAttempted(r, pos)
                 /\ \A a \in Range(r.attempts) : a.pos <= r.vi

\* A rotation over two different volumes was ended by a fatal error at the
\* second, after deletes at the first.
C5_Witness ==
    \E p \in Procs :
        LET r == proc[p]
        IN /\ Aborted(r)
           /\ Len(r.args.volumes) = 2
           /\ r.args.volumes[1] # r.args.volumes[2]
           /\ r.vi = 2
           /\ AttemptedIds(r, 1) # {}
           /\ Cardinality(AttemptedIds(r, 2)) < Len(r.fetchLog[2])

----------------------------------------------------------------------------
(* Rotation restricted to the snapshots of the tool (rotate_only) *)

\* A description in the current format, or one of the earlier versions.
IsToolDescription(d) ==
    d.marker = CurrentMarker \/ d \in Range(OLD_DESCRIPTION)

InitScope ==
    InitWith(Stores(MaxFewSnaps, {0},
                    OLD_DESCRIPTION \o
                        <<generate_description(0), ForeignDescription>>,
                    {NoFault}),
             {{}}, {MaxTime}, {0})

NextScope ==
    \E p \in Procs :
        \/ \E vols \in VolumeLists, k \in 0..MaxRotate :
               rotate_snapshots(p, vols, k, TRUE)
        \/ \E vols \in VolumeLists, k \in 0..MaxRotate :
               rotate_days_snapshots(p, vols, k, TRUE)
        \/ RotateDescribe(p)
        \/ RotateDelete(p)
        \/ DaysDescribe(p)
        \/ DaysIter(p)

SpecScope == InitScope /\ [][NextScope]_vars

\* p makes a delete call in this step.
DeleteCall(p) == Len(proc'[p].attempts) = Len(proc[p].attempts) + 1

DeleteCallId(p) == proc'[p].attempts[Len(proc'[p].attempts)].id

\* p fetches the snapshot list of a volume in this step.
FetchCall(p) == Len(proc'[p].fetchLog) = Len(proc[p].fetchLog) + 1

\* C6: with rotate_only, under either policy, every delete call is for a
\* snapshot of the store whose description is a current or legacy marker of
\* the tool: a foreign snapshot is never passed to delete.
C6_ScopeIsolation ==
    [][\A p \in Procs :
          (proc[p].args.rotate_only /\ DeleteCall(p)) =>
             \E s \in snapshots :
                /\ s.id = DeleteCallId(p)
                /\ IsToolDescription(s.desc)]_vars

\* A rotate_only rotation has deleted a snapshot of a volume and left a
\* foreign one of the same volume that the policy would have marked.
C6_Witness ==
    \E p \in Procs :
        LET r == proc[p]
        IN /\ Rotating(r)
           /\ r.args.rotate_only
           /\ r.args.rotate = 0
           /\ r.result = "ok"
           /\ \E a \in Range(r.attempts) :
                 /\ a.code = NoFault
                 /\ \E s \in snapshots :
                       /\ s.vol = r.args.volumes[a.pos]
                       /\ ~IsToolDescription(s.desc)

\* C7 as stated: with rotate_only the snapshots fetched for a volume are
\* those of the volume whose description is a current-format or a legacy
\* marker, so that a snapshot described by generate_description is counted.
C7_CurrentFormatEligible ==
    [][\A p \in Procs :
          (proc[p].args.rotate_only /\ FetchCall(p)) =>
             Ids(proc'[p].fetchLog[Len(proc'[p].fetchLog)]) =
                 {s.id : s \in {x \in snapshots :
                     /\ x.vol = proc[p].args.volumes[proc[p].vi]
                     /\ IsToolDescription(x.desc)}}]_vars

----------------------------------------------------------------------------
(* Successive backup invocations on an empty store *)

InitRuns == InitWith({{}}, {{}}, {0}, 0..MaxSkew)

\* The invocation is repeated with the arguments of the first run; the clock
\* ticks (half days) between invocations, not within one.
RepeatsFirstRun(h, vols, k) ==
    h # <<>> => (h[1].args.volumes = vols /\ h[1].args.rotate = k)

NextRuns ==
    \/ \E p \in Procs :
        \/ \E vols \in VolumeLists, k \in 1..MaxRotate :
               /\ RepeatsFirstRun(proc[p].history, vols, k)
               /\ backup(p, vols, "rotate_snapshots", k, FALSE, FALSE)
        \/ CreateSnapshot(p)
        \/ Wait(p)
        \/ RotateDescribe(p)
        \/ RotateDelete(p)
    \/ (\A p \in Procs : proc[p].pc \in {"idle", "off"}) /\ Tick

SpecRuns == InitRuns /\ [][NextRuns]_vars

\* The first k backup invocations of the history h were all made with the
\* arguments of the first: rotate = 1 on a list of different volumes.
SameRuns(h, k) ==
    /\ k \in DOMAIN h
    /\ \A j \in 1..k : h[j].args = h[1].args
    /\ h[1].args.rotate = 1
    /\ \A i, j \in DOMAIN h[1].args.volumes :
          i # j => h[1].args.volumes[i] # h[1].args.volumes[j]

\* C8 as stated (the integration tests): each targeted volume holds 1, 2 and
\* 2 snapshots after the 1st, 2nd and 3rd invocation, and each invocation
\* returns without error.
C8_TestCounts ==
    \A p \in Procs :
        LET h == proc[p].history
        IN \A k \in 1..3 :
              SameRuns(h, k) =>
                 /\ h[k].result = "ok"
                 /\ \A v \in Range(h[1].args.volumes) :
                       h[k].count[v] = IF k = 1 THEN 1 ELSE 2

----------------------------------------------------------------------------
(* Creation with tag copy *)

\* The tag sets of a volume: at most one value for a key.
TagSets ==
    {ts \in SUBSET (TagKeys \X TagValues) :
        \A t, u \in ts : t[1] = u[1] => t = u}

InitTags == InitWith({{}}, TagSets, {0}, 0..MaxSkew)

NextTags ==
    \E p \in Procs :
        \/ \E vols \in VolumeLists, c \in BOOLEAN :
               /\ proc[p].result = "none"
               /\ create_snapshots(p, vols, c)
        \/ CreateSnapshot(p)
        \/ CopyTags(p)
        \/ Wait(p)

SpecTags == InitTags /\ [][NextTags]_vars

SnapshotOf(id) == CHOOSE s \in snapshots : s.id = id

\* C10: when create_snapshots with copy_tags reaches its wait, the snapshot
\* created for each volume with a non-empty tag set carries exactly that tag
\* set and is still pending; the tag calls made are exactly those, one per
\* such snapshot, so a volume with no tags triggers none.
C10_TagsCopied ==
    \A p \in Procs :
        LET r == proc[p]
        IN (r.fn = "create_snapshots" /\ r.pc = "wait" /\ r.args.copy_tags) =>
           /\ Len(r.created) = Len(r.args.volumes)
           /\ \A i \in DOMAIN r.created :
                 LET s == SnapshotOf(r.created[i])
                 IN /\ s.vol = r.args.volumes[i]
                    /\ s.state = "pending"
                    /\ s.tags = voltags[r.args.volumes[i]]
           /\ {c.id : c \in Range(r.tagCalls)} =
                 {r.created[i] : i \in {j \in DOMAIN r.created :
                                     voltags[r.args.volumes[j]] # {}}}
           /\ \A c \in Range(r.tagCalls) : c.tags # {}
           /\ Len(r.tagCalls) = Cardinality({c.id : c \in Range(r.tagCalls)})

\* A creation with copy_tags is at its wait, one volume carrying two tags
\* and the other none.
C10_Witness ==
    \E p \in Procs :
        LET r == proc[p]
        IN /\ r.fn = "create_snapshots" /\ r.pc = "wait" /\ r.args.copy_tags
           /\ Len(r.args.volumes) = 2
           /\ Cardinality(voltags[r.args.volumes[1]]) = 2
           /\ voltags[r.args.volumes[2]] = {}
           /\ Len(r.tagCalls) = 1
           /\ SnapshotOf(r.created[1]).tags = voltags[r.args.volumes[1]]

----------------------------------------------------------------------------
(* The Resource Locator on a remote with up to two instances *)

InstanceStates == {"running", "stopped", "terminated"}

\* The tag query "k:v" and the tag it asks for.
TagQuery == <<"k", ":", "v">>

QueryTagSets == {{}, {<< <<"k">>, <<"v">> >>}}

\* The block-device mappings of an instance: no volume twice.
Mappings ==
    {m \in UNION {[1..n -> Volumes] : n \in 0..Cardinality(Volumes)} :
        \A i, j \in DOMAIN m : i # j => m[i] # m[j]}

InstanceRecords(id) ==
    [id : {id}, state : InstanceStates, tags : QueryTagSets,
     mappings : Mappings]

\* No instance, one, or two: in one reservation or in one each.
RemoteInstances ==
    {<<>>}
        \cup {<< <<a>> >> : a \in InstanceRecords("i-1")}
        \cup {<< <<a, b>> >> :
                 a \in InstanceRecords("i-1"), b \in InstanceRecords("i-2")}
        \cup {<< <<a>>, <<b>> >> :
                 a \in InstanceRecords("i-1"), b \in InstanceRecords("i-2")}

InitLocate ==
    /\ snapshots = {}
    /\ voltags \in [Volumes -> QueryTagSets]
    /\ now = 0
    /\ skew = 0
    /\ nextId = 1
    /\ proc = [p \in Procs |-> Off]
    /\ instances \in RemoteInstances
    /\ client = NoClient

NextLocate ==
    \/ \E id \in {"i-1", "i-2"} :
          client.status = "none" /\ find_instance_by_id(id)
    \/ client.status = "none" /\ find_instances_by_tags(<<TagQuery>>)
    \/ client.status = "none" /\ find_volumes_by_tags(<<TagQuery>>)
    \/ DescribeInstances
    \/ DescribeVolumes

SpecLocate == InitLocate /\ [][NextLocate]_vars

Located ==
    /\ client.status = "ok"
    /\ client.fn \in {"find_instance_by_id", "find_instances_by_tags",
                      "find_volumes_by_tags"}

\* C11 as stated: the list a find_* function returns holds each volume
\* identifier at most once, whatever the remote holds.
C11_Deduplicated ==
    Located =>
       \A i, j \in DOMAIN client.volumes :
          i # j => client.volumes[i] # client.volumes[j]

----------------------------------------------------------------------------
(* auth on every combination of its arguments *)

AuthRegions == Range(default_region) \cup {None, "", "eu-west-9"}

AuthEndpoints == {None, "", "https://api.example.com"}

InitAuth ==
    /\ snapshots = {}
    /\ voltags = [v \in Volumes |-> {}]
    /\ now = 0
    /\ skew = 0
    /\ nextId = 1
    /\ proc = [p \in Procs |-> Off]
    /\ instances = <<>>
    /\ client = NoClient

NextAuth ==
    \/ \E profile \in {None, "default"}, region \in AuthRegions,
          cert \in {None, "client.pem"}, endpoint \in AuthEndpoints :
          client.status = "none" /\ auth(profile, region, cert, endpoint)
    \/ AuthSession
    \/ AuthClient
    \/ AuthDescribeKeyPairs

SpecAuth == InitAuth /\ [][NextAuth]_vars

\* C12: a call of auth with no endpoint and a region that is unspecified or
\* not canonical has raised the configuration error without having made any
\* call; a call with an endpoint, or with a canonical region, never raises
\* the configuration error.
C12_FailClosed ==
    client.fn = "auth" =>
       IF Falsy(client.args.endpoint)
            /\ client.args.region \notin Range(default_region)
       THEN /\ client.status = "raised"
            /\ client.error = "InputError"
            /\ client.calls = <<>>
       ELSE client.error # "InputError"

\* auth was called without a region and without an endpoint, and has raised.
C12_Witness ==
    /\ client.fn = "auth"
    /\ client.args.region = None
    /\ client.args.endpoint = None
    /\ client.status = "raised"
    /\ client.calls = <<>>

----------------------------------------------------------------------------
(* One backup invocation whose calls may fail *)

InitStages ==
    InitWith(Stores(MaxFewSnaps, {0}, <<ForeignDescription>>, Faults),
             {{}}, {MaxTime}, {0})

NextStages ==
    \E p \in Procs :
        \/ \E vols \in VolumeLists, k \in 0..MaxRotate,
              policy \in {"rotate_snapshots", "rotate_days_snapshots"} :
               /\ proc[p].result = "none"
               /\ backup(p, vols, policy, k, FALSE, FALSE)
        \/ CreateSnapshot(p)
        \/ CreateSnapshotFails(p)
        \/ Wait(p)
        \/ WaitFails(p)
        \/ RotateDescribe(p)
        \/ RotateDelete(p)
        \/ DaysDescribe(p)
        \/ DaysIter(p)

SpecStages == InitStages /\ [][NextStages]_vars

\* The wait of the invocation r for the snapshots it created has returned:
\* one was created for every listed volume and none of them is pending.
WaitReturned(r) ==
    /\ Len(r.created) = Len(r.args.volumes)
    /\ \A s \in snapshots : s.id \in Range(r.created) => s.state = "completed"

----------------------------------------------------------------------------
(* The parsing of the tag queries *)

\* One query string, or two of which one is "k:v".
QueryLists ==
    UNION {{<<q>>, <<q, TagQuery>>, <<TagQuery, q>>} :
              q \in Strings(MaxQueryLen)}

InitParse ==
    /\ snapshots = {}
    /\ voltags = [v \in Volumes |->
                     IF v = "vol-a" THEN {<< <<"k">>, <<"v">> >>} ELSE {}]
    /\ now = 0
    /\ skew = 0
    /\ nextId = 1
    /\ proc = [p \in Procs |-> Off]
    /\ instances = << << [id |-> "i-1", state |-> "running",
                          tags |-> {<< <<"k">>, <<"v">> >>},
                          mappings |-> <<"vol-b">>] >> >>
    /\ client = NoClient

NextParse ==
    \/ \E tags \in QueryLists :
          client.status = "none" /\ find_instances_by_tags(tags)
    \/ \E tags \in QueryLists :
          client.status = "none" /\ find_volumes_by_tags(tags)
    \/ DescribeInstances
    \/ DescribeVolumes

SpecParse == InitParse /\ [][NextParse]_vars

\* The filter the claim describes for a query: named by the text before the
\* first colon, its single value the whole text after it.
FirstColonFilter(tag) ==
    [Name |-> <<"tag:", SplitOnce(tag)[1]>>, Values |-> <<SplitOnce(tag)[2]>>]

\* The tag filters of the call: all of them, or all after the state filter.
TagFiltersBuilt ==
    IF client.fn = "find_instances_by_tags" /\ client.filters # <<>>
    THEN Tail(client.filters) ELSE client.filters

\* C14 as stated: for queries that each hold a colon, the call builds one
\* filter for each query, in order, named by the text before the first colon
\* and with the whole text after the first colon as its single value.
C14_FirstColonSplit ==
    ( /\ client.fn \in {"find_instances_by_tags", "find_volumes_by_tags"}
      /\ \A i \in DOMAIN client.args : HasColon(client.args[i]) )
    => TagFiltersBuilt =
          [i \in DOMAIN client.args |-> FirstColonFilter(client.args[i])]

----------------------------------------------------------------------------
(* A fatal delete error *)

\* The code of the delete call p makes in this step.
DeleteCallCode(p) == proc'[p].attempts[Len(proc'[p].attempts)].code

\* C15: a delete call of a rotation that fails with a code other than in-use
\* ends the call at once with the error: the store is as it was before the
\* failed call, no snapshot deleted earlier in the call is back, and the
\* remaining marked snapshots of the volume are dropped with the call.
C15_FatalStopsWithoutRollback ==
    [][\A p \in Procs :
          ( /\ Rotating(proc[p])
            /\ DeleteCall(p)
            /\ DeleteCallCode(p) \notin {NoFault, InUse} )
          => /\ proc'[p].result = "raised"
             /\ proc'[p].pc = "idle"
             /\ proc'[p].snaps = <<>>
             /\ proc'[p].vi = proc[p].vi
             /\ snapshots' = snapshots
             /\ \A a \in Range(proc[p].attempts) :
                   a.code = NoFault
                      => \A s \in snapshots' : s.id # a.id]_vars

\* A rotation was ended by a fatal error at a volume of which it had deleted
\* a snapshot before and of which a marked snapshot was still to come.
C15_Witness ==
    \E p \in Procs :
        LET r == proc[p]
        IN /\ Aborted(r)
           /\ r.fn = "rotate_snapshots"
           /\ r.args.rotate = 0
           /\ \E a \in AttemptsAt(r, r.vi) : a.code = NoFault
           /\ Cardinality(AttemptedIds(r, r.vi)) < Len(r.fetchLog[r.vi])

----------------------------------------------------------------------------
(* A rotation while other actors create and delete snapshots *)

InitOneRead ==
    InitWith(Stores(MaxFewSnaps, {0, MaxTime}, <<ForeignDescription>>,
                    {NoFault}),
             {{}}, {MaxTime}, {0})

\* The other actors act after a rotation has read the list of a volume and
\* before it is through with it; they create one snapshot more than a store
\* holds at first.
OthersAct == \E p \in Procs : proc[p].pc \in {"rotate_delete", "days_iter"}

OthersCreate == OthersAct /\ nextId <= MaxFewSnaps + 1

NextOneRead ==
    \/ \E p \in Procs :
        \/ \E vols \in VolumeLists, k \in 0..MaxRotate :
               proc[p].result = "none" /\ rotate_snapshots(p, vols, k, FALSE)
        \/ \E vols \in VolumeLists, k \in 0..MaxRotate :
               /\ proc[p].result = "none"
               /\ rotate_days_snapshots(p, vols, k, FALSE)
        \/ RotateDescribe(p)
        \/ RotateDelete(p)
        \/ DaysDescribe(p)
        \/ DaysIter(p)
    \/ OthersCreate /\ OtherCreates
    \/ OthersAct /\ OtherDeletes

SpecOneRead == InitOneRead /\ [][NextOneRead]_vars

RECURSIVE IdList(_)
IdList(items) ==
    IF items = <<>> THEN <<>> ELSE <<items[1].id>> \o IdList(Tail(items))

\* The identifiers r passed to delete at position pos, in the order of the
\* calls.
RECURSIVE AttemptList(_, _)
AttemptList(attempts, pos) ==
    IF attempts = <<>> THEN <<>>
    ELSE (IF attempts[1].pos = pos THEN <<attempts[1].id>> ELSE <<>>)
             \o AttemptList(Tail(attempts), pos)

RECURSIVE AgedItems(_, _)
AgedItems(F, rotate) ==
    IF F = <<>> THEN <<>>
    ELSE (IF now - F[1].start >= rotate * TicksPerDay
          THEN <<F[1]>> ELSE <<>>) \o AgedItems(Tail(F), rotate)

\* The delete-set of r at position pos, in order, as the list fetched there
\* gives it (the clock standing still).
DeleteSet(r, pos) ==
    IF r.fn = "rotate_snapshots"
    THEN LET F == r.fetchLog[pos]
             s == SortByStartTimeDesc(F)
         IN IF Len(F) >= r.args.rotate
            THEN IdList(SubSeq(s, Min(Len(s), r.args.rotate) + 1, Len(s)))
            ELSE <<>>
    ELSE IdList(AgedItems(r.fetchLog[pos], r.args.rotate))

IsPrefix(a, b) == Len(a) <= Len(b) /\ a = SubSeq(b, 1, Len(a))

\* C16: a rotation reads the snapshot list of each volume position once, and
\* what it passes to delete there is, call after call, the delete-set the
\* policy computes from that one list, in its order, whatever other actors
\* have created or deleted since: all of it once the volume is finished, a
\* beginning of it before that or when a delete failed fatally.
C16_OneReadPerVolume ==
    \A p \in Procs :
        LET r == proc[p]
        IN Rotating(r) =>
           /\ Len(r.fetchLog) <= r.vi
           /\ r.pc \in {"rotate_delete", "days_iter"}
                 => Len(r.fetchLog) = r.vi
           /\ r.result = "ok" => Len(r.fetchLog) = Len(r.args.volumes)
           /\ \A a \in Range(r.attempts) : a.pos \in DOMAIN r.fetchLog
           /\ \A pos \in DOMAIN r.fetchLog :
                 /\ IsPrefix(AttemptList(r.attempts, pos), DeleteSet(r, pos))
                 /\ Completed(r, pos)
                       => AttemptList(r.attempts, pos) = DeleteSet(r, pos)

\* A rotation is about to delete the second snapshot of its delete-set, which
\* another actor has deleted already, while the volume holds a snapshot that
\* was created after the read.
C16_Witness ==
    \E p \in Procs :
        LET r == proc[p]
        IN /\ r.pc = "rotate_delete"
           /\ r.vi = 1
           /\ r.si = 2
           /\ \A s \in snapshots : s.id # r.snaps[2].id
           /\ \E s \in snapshots :
                 /\ s.vol = r.args.volumes[1]
                 /\ s.id \notin Ids(r.fetchLog[1])

----------------------------------------------------------------------------
(* create_snapshots, two invocations at a time, calls that may fail *)

InitCreate ==
    /\ snapshots = {}
    /\ voltags \in [Volumes -> {{}, {<<"Name", "X">>}}]
    /\ now = 0
    /\ skew = 0
    /\ nextId = 1
    /\ proc = [p \in Procs |-> Idle]
    /\ instances = <<>>
    /\ client = NoClient

NextCreateCalls ==
    \E p \in Procs :
        \/ \E vols \in VolumeLists, c \in BOOLEAN :
               /\ proc[p].result = "none"
               /\ create_snapshots(p, vols, c)
        \/ CreateSnapshot(p)
        \/ CreateSnapshotFails(p)
        \/ CopyTags(p)
        \/ CopyTagsFails(p)
        \/ Wait(p)
        \/ WaitFails(p)

SpecCreate == InitCreate /\ [][NextCreateCalls]_vars

\* p raises in this step: the call is over and the store is as it was.
RaisesHere(p) ==
    /\ proc'[p].result = "raised"
    /\ proc'[p].pc = "idle"
    /\ snapshots' = snapshots

\* C17: every step of create_snapshots.  At the volume at position vi it has
\* made vi - 1 creation requests, and the request it makes now is for that
\* volume; it comes to its wait only with one created snapshot for each entry
\* of the list, in list order; the wait completes exactly the snapshots it
\* created, and the function returns with it; a creation, tag or wait call
\* that fails ends the function with the error, nothing being tried again.
C17_CreateThenOneWait ==
    [][\A p \in Procs :
          LET r == proc[p]
              q == proc'[p]
          IN (r.fn = "create_snapshots" /\ r.pc # "idle" /\ q # r) =>
             /\ r.pc = "create" =>
                   /\ Len(r.created) = r.vi - 1
                   /\ \/ RaisesHere(p)
                      \/ /\ q.created = Append(r.created, nextId)
                         /\ snapshots' \ snapshots =
                               {[id |-> nextId, vol |-> r.args.volumes[r.vi],
                                 start |-> now + skew,
                                 desc |-> generate_description(now),
                                 tags |-> {}, fault |-> NoFault,
                                 state |-> "pending"]}
                         /\ q.pc \in {"create", "copy_tags", "wait"}
             /\ r.pc = "copy_tags" =>
                   \/ RaisesHere(p)
                   \/ q.created = r.created /\ q.pc \in {"create", "wait"}
             /\ (q.pc = "wait" /\ r.pc # "wait") =>
                   /\ Len(q.created) = Len(r.args.volumes)
                   /\ \A i, j \in DOMAIN q.created :
                         i < j => q.created[i] < q.created[j]
             /\ r.pc = "wait" =>
                   \/ RaisesHere(p)
                   \/ /\ q.result = "ok"
                      /\ q.pc = "idle"
                      /\ \A s \in snapshots :
                            IF s.id \in Range(r.created)
                            THEN [s EXCEPT !.state = "completed"]
                                     \in snapshots'
                            ELSE s \in snapshots'
                      /\ Cardinality(snapshots') = Cardinality(snapshots)]_vars

\* A creation over two volumes has returned, its two snapshots completed,
\* while a snapshot created by the other invocation is still pending.
C17_Witness ==
    \E p \in Procs :
        LET r == proc[p]
        IN /\ r.fn = "create_snapshots"
           /\ r.result = "ok"
           /\ Len(r.created) = 2
           /\ \A s \in snapshots :
                 s.id \in Range(r.created) => s.state = "completed"
           /\ \E s \in snapshots :
                 s.id \notin Range(r.created) /\ s.state = "pending"

----------------------------------------------------------------------------
(* Two invocations at a time on one volume: a backup and a rotation *)

InitRace ==
    /\ snapshots \in Stores(MaxFewSnaps, {0}, <<ForeignDescription>>,
                            {NoFault})
    /\ voltags = [v \in Volumes |-> {}]
    /\ now = MaxTime
    /\ skew = 0
    /\ nextId = Cardinality(snapshots) + 1
    /\ proc = [p \in Procs |-> Idle]
    /\ instances = <<>>
    /\ client = NoClient

NextRace ==
    \/ \E v \in Volumes, k \in 0..MaxRotate :
          /\ proc["p1"].result = "none"
          /\ backup("p1", <<v>>, "rotate_snapshots", k, FALSE, FALSE)
    \/ \E v \in Volumes, k \in 0..MaxRotate :
          /\ proc["p2"].result = "none"
          /\ rotate_snapshots("p2", <<v>>, k, FALSE)
    \/ \E p \in Procs :
        \/ CreateSnapshot(p)
        \/ Wait(p)
        \/ RotateDescribe(p)
        \/ RotateDelete(p)

SpecRace == InitRace /\ [][NextRace]_vars

\* C18: nothing keeps one invocation from acting between the read and the
\* deletes of another.  The list a rotation reads is what the store holds of
\* the volume at that moment, whatever the other invocation is about to
\* create; and a delete call for a snapshot that the other invocation has
\* deleted since the read is answered as not found, which is raised.
C18_NoMutualExclusion ==
    [][\A p \in Procs :
          /\ FetchCall(p) =>
                Ids(proc'[p].fetchLog[Len(proc'[p].fetchLog)]) =
                    StoreIds(proc[p].args.volumes[proc[p].vi])
          /\ (DeleteCall(p) /\ \A s \in snapshots : s.id # DeleteCallId(p)) =>
                /\ DeleteCallCode(p) = NotFound
                /\ proc'[p].result = "raised"
                /\ \E q \in Procs \ {p} :
                      \E a \in Range(proc[q].attempts) :
                         a.id = DeleteCallId(p) /\ a.code = NoFault]_vars

\* Both invocations have read the list of the same volume and neither has
\* deleted yet: they have marked the same snapshot, and the list the rotation
\* read lacks the snapshot the backup has created since.
C18_Witness ==
    \E p, q \in Procs :
        LET r == proc[p]
            o == proc[q]
        IN /\ p # q
           /\ r.mode = "backup" /\ r.pc = "rotate_delete" /\ r.attempts = <<>>
           /\ o.mode = "call" /\ o.pc = "rotate_delete" /\ o.attempts = <<>>
           /\ r.args.volumes = o.args.volumes
           /\ Ids(r.snaps) \cap Ids(o.snaps) # {}
           /\ \E c \in Range(r.created) :
                 /\ c \notin Ids(o.fetchLog[1])
                 /\ c \in StoreIds(o.args.volumes[1])

----------------------------------------------------------------------------
(* Two successive count rotations of a volume with snapshots in use *)

InitRetry ==
    /\ snapshots \in Stores(MaxFewSnaps, {0, MaxTime},
                            <<ForeignDescription>>, {NoFault, InUse})
    /\ voltags = [v \in Volumes |-> {}]
    /\ now = MaxTime
    /\ skew = 0
    /\ nextId = Cardinality(snapshots) + 1
    /\ proc = [p \in Procs |-> Idle]
    /\ instances = <<>>
    /\ client = NoClient

\* The second rotation is made once the first is over, with its arguments.
NextRetry ==
    \/ \E v \in Volumes, k \in 0..MaxRotate :
          /\ proc["p1"].result = "none"
          /\ rotate_snapshots("p1", <<v>>, k, FALSE)
    \/ /\ proc["p1"].result \in {"ok", "raised"}
       /\ proc["p2"].result = "none"
       /\ rotate_snapshots("p2", proc["p1"].args.volumes,
                           proc["p1"].args.rotate, FALSE)
    \/ \E p \in Procs :
        \/ RotateDescribe(p)
        \/ RotateDelete(p)
    \/ Release

SpecRetry == InitRetry /\ [][NextRetry]_vars

\* The snapshots whose delete by r failed as in-use.
FailedInUse(r) == {a.id : a \in {b \in Range(r.attempts) : b.code = InUse}}

\* The later rotation o, which has read the list, treats the snapshot id as
\* the claim says: it passes it to delete, deletes it unless it is in use
\* still, and leaves at most keep snapshots when all its deletes succeed.
Retried(o, id) ==
    o.result = "ok" =>
       /\ id \in AttemptedIds(o, 1)
       /\ \A a \in Range(o.attempts) :
             (a.id = id /\ a.code = NoFault) => id \notin StoreIds(o.args.volumes[1])
       /\ \A a \in Range(o.attempts) :
             (a.id = id /\ id \in StoreIds(o.args.volumes[1])) => a.code = InUse
       /\ (\A a \in Range(o.attempts) : a.code = NoFault)
             => Cardinality(StoreIds(o.args.volumes[1])) <= o.args.rotate

\* After the first rotation the volume holds the snapshots that failed as
\* in-use and more than keep snapshots in all.
StillHeld(r, o) ==
    o.result = "none" =>
       /\ FailedInUse(r) \subseteq StoreIds(r.args.volumes[1])
       /\ Cardinality(StoreIds(r.args.volumes[1])) > r.args.rotate

\* C19 as stated: after a count rotation in which a marked snapshot A failed
\* as in-use the volume holds more than keep snapshots, and the next count
\* rotation of the volume with the same keep passes A to delete again,
\* whatever the timestamps.
C19_AlwaysRetried ==
    LET r == proc["p1"]
        o == proc["p2"]
    IN (r.result = "ok" /\ FailedInUse(r) # {}) =>
          /\ StillHeld(r, o)
          /\ \A id \in FailedInUse(r) : Retried(o, id)

\* C19 amended: the same, for a volume whose snapshots have distinct creation
\* timestamps when the next rotation reads them.
C19_RetriedUnlessTied ==
    LET r == proc["p1"]
        o == proc["p2"]
    IN (r.result = "ok" /\ FailedInUse(r) # {}) =>
          /\ StillHeld(r, o)
          /\ (o.fetchLog # <<>> /\ DistinctStarts(o.fetchLog[1]))
                => \A id \in FailedInUse(r) : Retried(o, id)

\* The first rotation with keep = 1 failed on a snapshot in use; the second,
\* made after the snapshot was released, has deleted it and left one.
C19_Witness ==
    LET r == proc["p1"]
        o == proc["p2"]
    IN /\ r.result = "ok" /\ o.result = "ok"
       /\ r.args.rotate = 1
       /\ DistinctStarts(o.fetchLog[1])
       /\ \E id \in FailedInUse(r) :
             /\ \E a \in Range(o.attempts) : a.id = id /\ a.code = NoFault
             /\ id \notin StoreIds(o.args.volumes[1])
       /\ Cardinality(StoreIds(o.args.volumes[1])) = 1

----------------------------------------------------------------------------
(* Count rotation with a rotate argument of zero or less *)

InitBelow ==
    InitWith(Stores(MaxInitSnaps, {0, MaxTime}, <<ForeignDescription>>,
                    {NoFault, InUse}),
             {{}}, {MaxTime}, {0})

NextBelow ==
    \E p \in Procs :
        \/ \E vols \in VolumeLists, k \in (0 - MaxBelowZero)..0 :
               proc[p].result = "none" /\ rotate_snapshots(p, vols, k, FALSE)
        \/ RotateDescribe(p)
        \/ RotateDelete(p)

SpecBelow == InitBelow /\ [][NextBelow]_vars

\* C20: rotate_snapshots with rotate <= 0 does not raise for it; at every
\* volume it has finished, every snapshot it read was passed to delete, and
\* the volume holds no snapshot when all those deletes succeeded.
C20_NoKeepFloor ==
    \A p \in Procs :
        LET r == proc[p]
        IN (r.fn = "rotate_snapshots" /\ r.args.rotate <= 0) =>
           /\ r.result # "raised"
           /\ r.result = "ok" => Len(r.fetchLog) = Len(r.args.volumes)
           /\ \A pos \in DOMAIN r.fetchLog :
                 Completed(r, pos) =>
                    /\ AttemptedIds(r, pos) = Ids(r.fetchLog[pos])
                    /\ (\A a \in AttemptsAt(r, pos) : a.code = NoFault)
                          => StoreIds(r.args.volumes[pos]) = {}

\* A rotation with a negative rotate has returned after deleting the three
\* snapshots of a volume.
C20_Witness ==
    \E p \in Procs :
        LET r == proc[p]
        IN /\ r.fn = "rotate_snapshots"
           /\ r.args.rotate < 0
           /\ r.result = "ok"
           /\ \E pos \in DOMAIN r.fetchLog :
                 /\ Len(r.fetchLog[pos]) = MaxInitSnaps
                 /\ \A a \in AttemptsAt(r, pos) : a.code = NoFault
                 /\ StoreIds(r.args.volumes[pos]) = {}

====
